---- MODULE Spec2Model ----
(***************************************************************************)
(* The items API of packages/backend/src/app.js: an in-memory SQLite table *)
(* `items` behind three Express routes (GET, POST, DELETE), with the       *)
(* age-gated delete.  Time is in milliseconds since a day-aligned epoch.   *)
(* Strings that the code inspects character by character (names, ids) are  *)
(* sequences of one-character strings.                                     *)
(*                                                                         *)
(* The React client of packages/frontend/src/App.js: its four state hooks  *)
(* and the fetch calls it has in flight.  A specification either drives    *)
(* the API directly (the client at rest) or through the client.            *)
(***************************************************************************)
EXTENDS Integers, Sequences, FiniteSets, TLC

VARIABLES
    items,   \* the rows of table `items`: records [id, name, created_at]
    seq,     \* sqlite_sequence for `items`: the largest rowid ever assigned
    now,     \* the system clock, ms
    tz,      \* the process's local-time offset from UTC, ms (fixed per run)
    born,    \* ghost: id -> clock reading when POST inserted the row
    resp,    \* the last HTTP response, with the request that caused it
    data,    \* useState([]): the client's list of items
    loading, \* useState(true)
    error,   \* useState(null): null or the message shown
    newItem, \* useState(''): the draft in the text field
    calls,   \* the client's fetch calls in flight, in the order issued
    issued   \* the number of fetch calls the client has made

vars == <<items, seq, now, tz, born, resp, data, loading, error, newItem, calls, issued>>

\* The client's part of the state
cvars == <<data, loading, error, newItem, calls, issued>>

----------------------------------------------------------------------------
\* Units and program constants

MsPerSecond == 1000
MsPerHour == 1000 * 60 * 60
MsPerDay == 1000 * 60 * 60 * 24
MinAgeDays == 5

\* Bounds of the model
MaxDays == 5        \* the clock runs up to the end of day MaxDays
MaxCreates == 1     \* POSTs that insert a row

InitialCount == 3

\* The instants the clock visits: on day 0 and on the days around the age
\* gate, the start of hours 0 and 23, on the second and half a second past it.
DayMarks == {0} \cup ((MinAgeDays - 1)..MaxDays)
HourMarks == {0, 23}
MsMarks == {0, 500}
Instants ==
    {d * MsPerDay + h * MsPerHour + m : d \in DayMarks, h \in HourMarks, m \in MsMarks}

\* Local-time offsets the process may run under (UTC, one hour east).
TzOffsets == {0, MsPerHour}

----------------------------------------------------------------------------
\* JavaScript values and string helpers

JsUndefined == [t |-> "undefined", n |-> 0, s |-> <<>>]
JsNumber(n) == [t |-> "number", n |-> n, s |-> <<>>]
JsString(s) == [t |-> "string", n |-> 0, s |-> s]
JsNull == [t |-> "null", n |-> 0, s |-> <<>>]

\* !v
Falsy(v) ==
    \/ v.t = "undefined"
    \/ v.t = "null"
    \/ v.t = "number" /\ v.n = 0
    \/ v.t = "string" /\ v.s = <<>>

WhiteSpace == {" ", "\t", "\n"}

RECURSIVE TrimStart(_)
TrimStart(s) ==
    IF s # <<>> /\ Head(s) \in WhiteSpace THEN TrimStart(Tail(s)) ELSE s

RECURSIVE TrimEnd(_)
TrimEnd(s) ==
    IF s # <<>> /\ s[Len(s)] \in WhiteSpace
    THEN TrimEnd(SubSeq(s, 1, Len(s) - 1))
    ELSE s

\* String.prototype.trim
Trim(s) == TrimEnd(TrimStart(s))

Digits == <<"0", "1", "2", "3", "4", "5", "6", "7", "8", "9">>
IsDigit(c) == \E i \in 1..Len(Digits) : Digits[i] = c
DigitVal(c) == (CHOOSE i \in 1..Len(Digits) : Digits[i] = c) - 1

\* The value of the longest prefix of digits of s, continuing from acc;
\* `any` tells whether a digit was read.
RECURSIVE DigitPrefix(_, _, _)
DigitPrefix(s, acc, any) ==
    IF s # <<>> /\ IsDigit(Head(s))
    THEN DigitPrefix(Tail(s), acc * 10 + DigitVal(Head(s)), TRUE)
    ELSE [nan |-> ~any, v |-> acc]

\* parseInt(s, 10): leading white space skipped, an optional sign, then the
\* longest prefix of digits; NaN when there is none.  Trailing text is ignored.
ParseInt(s) ==
    LET t == TrimStart(s)
        neg == t # <<>> /\ Head(t) = "-"
        signed == t # <<>> /\ Head(t) \in {"-", "+"}
        r == DigitPrefix(IF signed THEN Tail(t) ELSE t, 0, FALSE)
    IN  [nan |-> r.nan, v |-> IF neg THEN 0 - r.v ELSE r.v]

\* Number -> decimal string (template literal `${id}`), for n >= 0
RECURSIVE NumberToString(_)
NumberToString(n) ==
    IF n < 10 THEN <<Digits[n + 1]>>
    ELSE NumberToString(n \div 10) \o <<Digits[(n % 10) + 1]>>

----------------------------------------------------------------------------
\* Timestamps.  A stored created_at is text (or NULL):
\*   fmt "sql":  'YYYY-MM-DD HH:MM:SS', t = the seconds it spells (SQLite writes UTC)
\*   fmt "iso":  'YYYY-MM-DDTHH:MM:SS.sssZ', t = the milliseconds it spells
\*   fmt "text": text that is no date ('not-a-valid-date')
\*   fmt "null": NULL

SqlStamp(sec) == [fmt |-> "sql", t |-> sec]
IsoStamp(ms) == [fmt |-> "iso", t |-> ms]
BadStamp == [fmt |-> "text", t |-> 0]
NullStamp == [fmt |-> "null", t |-> 0]

\* DEFAULT CURRENT_TIMESTAMP: the UTC clock cut to whole seconds
CurrentTimestamp(clock) == SqlStamp(clock \div MsPerSecond)

\* Date.prototype.toISOString: UTC with milliseconds and the Z designator
ToISOString(ms) == IsoStamp(ms)

\* Date.parse / new Date(string).getTime().  A date-time with a UTC designator
\* is that instant; one without an offset is read as local time, so the
\* instant is the spelled wall-clock time minus the local offset.
DateParse(c, offset) ==
    CASE c.fmt = "iso" -> [nan |-> FALSE, ms |-> c.t]
      [] c.fmt = "sql" -> [nan |-> FALSE, ms |-> c.t * MsPerSecond - offset]
      [] OTHER -> [nan |-> TRUE, ms |-> 0]

\* The calendar day a date text spells (its first ten characters)
DayOf(c) == IF c.fmt = "sql" THEN c.t \div (MsPerDay \div MsPerSecond) ELSE c.t \div MsPerDay

\* SQLite's comparison of two created_at values, a < b: NULL sorts below
\* text, text compares bytewise (digits < letters, ' ' < 'T').
StampLess(a, b) ==
    CASE a.fmt = "null" -> b.fmt # "null"
      [] b.fmt = "null" -> FALSE
      [] a.fmt = "text" -> FALSE
      [] b.fmt = "text" -> TRUE
      [] a.fmt = b.fmt -> a.t < b.t
      [] OTHER -> \/ DayOf(a) < DayOf(b)
                  \/ DayOf(a) = DayOf(b) /\ a.fmt = "sql"

----------------------------------------------------------------------------
\* The table

Row(id, name, created_at) == [id |-> id, name |-> name, created_at |-> created_at]

Ids(rows) == {r.id : r \in rows}

\* SELECT * FROM items WHERE id <= ?
SelectByIdUpTo(rows, id) ==
    IF \E r \in rows : r.id <= id
    THEN <<CHOOSE r \in rows : r.id <= id /\ \A q \in rows : q.id <= id => r.id <= q.id>>
    ELSE <<>>

\* SELECT * FROM items WHERE id = ?   (.get: the row in a sequence, or none)
SelectById(rows, id) ==
    IF \E r \in rows : r.id = id
    THEN <<CHOOSE r \in rows : r.id = id>>
    ELSE <<>>

\* The row that ORDER BY created_at ASC puts first
FirstAsc(rows) ==
    CHOOSE r \in rows : \A q \in rows \ {r} :
        \/ StampLess(r.created_at, q.created_at)
        \/ ~StampLess(q.created_at, r.created_at) /\ r.id < q.id

\* The row that ORDER BY created_at DESC puts first: the greatest created_at,
\* rows that tie in rowid order.
FirstDesc(rows) ==
    CHOOSE r \in rows : \A q \in rows \ {r} :
        \/ StampLess(q.created_at, r.created_at)
        \/ ~StampLess(r.created_at, q.created_at) /\ r.id < q.id

\* SELECT * FROM items ORDER BY created_at DESC   (.all)
RECURSIVE SelectAllDesc(_)
SelectAllDesc(rows) ==
    IF rows = {} THEN <<>>
    ELSE LET r == FirstDesc(rows) IN <<r>> \o SelectAllDesc(rows \ {r})

\* INTEGER PRIMARY KEY without AUTOINCREMENT: one more than the largest rowid
\* now in the table
NextRowidReuse(rows, last) ==
    IF rows = {} THEN 1 ELSE (CHOOSE m \in Ids(rows) : \A i \in Ids(rows) : i <= m) + 1

\* AUTOINCREMENT: one more than the largest rowid ever assigned (`last`,
\* which sqlite_sequence keeps), whatever rows the table still holds
NextRowid(rows, last) == last + 1

\* INSERT INTO items (name) VALUES (?)
InsertRow(rows, id, name, clock) == rows \cup {Row(id, name, CurrentTimestamp(clock))}

\* DELETE FROM items WHERE id >= ?
DeleteRowFrom(rows, id) == {r \in rows : r.id < id}

\* a DELETE that matches no row
DeleteRowNone(rows, id) == rows

\* DELETE FROM items WHERE id = ?
DeleteRow(rows, id) == {r \in rows : r.id # id}

\* result.changes read as 0
DeleteChangesNone(rows, id) == 0

\* result.changes of that DELETE
DeleteChanges(rows, id) == Cardinality({r \in rows : r.id = id})

----------------------------------------------------------------------------------------------------------------------------------------
\* Responses

\* A response: the route, the HTTP status, the body's `error`, the request's
\* input (POST: body.name; DELETE: params.id), the rows of the body, the row
\* the handler looked up (DELETE's `item`), the handler's diffTime (itemAge is
\* diffTime / MsPerDay) and the injected storage fault.
Response(op, status, msg, req, rows, item, diffTime, fault) ==
    [op |-> op, status |-> status, error |-> msg, req |-> req,
     body |-> rows, item |-> item, diffTime |-> diffTime, fault |-> fault]

NoResponse == Response("none", 0, "", JsUndefined, <<>>, <<>>, 0, "none")

\* Each request is handled in one synchronous handler call.
Respond(r) ==
    /\ resp' = r
    /\ UNCHANGED <<now, tz>>

----------------------------------------------------------------------------
\* GET /api/items

ListReq(fault) ==
    /\ IF fault = "select"
       THEN Respond(Response("list", 500, "Failed to fetch items", JsUndefined,
                             <<>>, <<>>, 0, fault))
       ELSE Respond(Response("list", 200, "", JsUndefined,
                             SelectAllDesc(items), <<>>, 0, fault))
    /\ UNCHANGED <<items, seq, born>>

----------------------------------------------------------------------------
\* POST /api/items

\* The guard without its trim() test
NameAcceptedUntrimmed(name) == ~(Falsy(name) \/ name.t # "string")

\* The guard of line 51, negated: the name is accepted
NameAccepted(name) ==
    ~(Falsy(name) \/ name.t # "string" \/ Trim(name.s) = <<>>)

\* The name trimmed before it is bound
StoredNameTrimmed(name) == Trim(name.s)

\* The text bound to the INSERT: the name as submitted
StoredName(name) == name.s

CreateReq(name, fault) ==
    /\ Cardinality(DOMAIN born) < MaxCreates
    /\ IF ~NameAccepted(name)
       THEN /\ Respond(Response("create", 400, "Item name is required", name,
                                <<>>, <<>>, 0, fault))
            /\ UNCHANGED <<items, seq, born>>
       ELSE IF fault = "insert"
       THEN /\ Respond(Response("create", 500, "Failed to create item", name,
                                <<>>, <<>>, 0, fault))
            /\ UNCHANGED <<items, seq, born>>
       ELSE LET id == NextRowid(items, seq)
                rows == InsertRow(items, id, StoredName(name), now)
            IN  /\ items' = rows
                /\ seq' = id
                /\ born' = [i \in DOMAIN born \cup {id} |->
                               IF i = id THEN now ELSE born[i]]
                /\ IF fault = "readback"
                   THEN Respond(Response("create", 500, "Failed to create item",
                                         name, <<>>, <<>>, 0, fault))
                   ELSE Respond(Response("create", 201, "", name,
                                         SelectById(rows, id), <<>>, 0, fault))

----------------------------------------------------------------------------
\* DELETE /api/items/:id

\* the age cut to whole days
DiffTimeWholeDays(item, clock, offset) ==
    ((clock - DateParse(item.created_at, offset).ms) \div MsPerDay) * MsPerDay

\* currentDate.getTime() - createdDate.getTime()
DiffTime(item, clock, offset) == clock - DateParse(item.created_at, offset).ms

\* Math.round in place of Math.floor
TooNewRounded(diffTime) == ((diffTime + MsPerDay \div 2) \div MsPerDay) < MinAgeDays

\* the threshold one day short
TooNewLenient(diffTime) == (diffTime \div MsPerDay) < MinAgeDays - 1

\* Math.floor(diffTime / (1000 * 60 * 60 * 24)) < 5
TooNew(diffTime) == (diffTime \div MsPerDay) < MinAgeDays

\* the isNaN test left out
StampInvalidNullOnly(item, offset) == item.created_at.fmt = "null"

\* !item.created_at || isNaN(Date.parse(item.created_at))
StampInvalid(item, offset) ==
    item.created_at.fmt = "null" \/ DateParse(item.created_at, offset).nan

DeleteReq(id, fault) ==
    LET req == JsString(id)
        itemId == ParseInt(id)
        found == SelectById(items, itemId.v)
        diffTime == DiffTime(found[1], now, tz)
        Reply(status, msg, item, d) ==
            /\ Respond(Response("delete", status, msg, req, <<>>, item, d, fault))
            /\ UNCHANGED <<items, seq, born>>
    IN  IF id = <<>>
        THEN \* no route matches /api/items/ : Express's own 404
             Reply(404, "", <<>>, 0)
        ELSE IF Trim(id) = <<>>
        THEN Reply(400, "Item id is required", <<>>, 0)
        ELSE IF itemId.nan
        THEN Reply(500, "Failed to delete item", <<>>, 0)
        ELSE IF fault = "select"
        THEN Reply(500, "Failed to delete item", <<>>, 0)
        ELSE IF found = <<>>
        THEN Reply(404, "Item not found", <<>>, 0)
        ELSE IF StampInvalid(found[1], tz)
        THEN Reply(500, "Failed to delete item", found, 0)
        ELSE IF TooNew(diffTime)
        THEN Reply(403, "Cannot delete items newer than 5 days", found, diffTime)
        ELSE IF fault = "delete"
        THEN Reply(500, "Failed to delete item", found, diffTime)
        ELSE IF DeleteChanges(items, itemId.v) = 0
        THEN Reply(404, "Item not found", found, diffTime)
        ELSE /\ items' = DeleteRow(items, itemId.v)
             /\ Respond(Response("delete", 200, "", req, <<>>, found, diffTime, fault))
             /\ UNCHANGED <<seq, born>>

----------------------------------------------------------------------------
\* The clock

Tick ==
    /\ \E t \in Instants : t > now /\ now' = t
    /\ UNCHANGED <<items, seq, tz, born, resp>>
    /\ UNCHANGED cvars

----------------------------------------------------------------------------
\* Requests the model issues

\* body.name of a POST: an accepted name, then names the guard rejects
GoodNames == {JsString(<<" ", "X">>)}
BadNames ==
    {JsUndefined, JsString(<<>>), JsString(<<" ", " ", " ">>), JsNumber(123)}
Names == GoodNames \cup BadNames

\* params.id of a DELETE as the client formats it: every rowid assigned so
\* far and the next one
NumericIds == {NumberToString(i) : i \in 1..(seq + 1)}

\* ids the handler has to validate
OddIds == {<<>>, <<" ">>, <<"x">>, <<"2", "x">>, <<"-", "1">>}

List == ListReq("none") /\ UNCHANGED cvars
Create == (\E name \in Names : CreateReq(name, "none")) /\ UNCHANGED cvars
Delete == (\E id \in NumericIds : DeleteReq(id, "none")) /\ UNCHANGED cvars
DeleteOdd == (\E id \in OddIds : DeleteReq(id, "none")) /\ UNCHANGED cvars

ListFault == ListReq("select") /\ UNCHANGED cvars
CreateFault ==
    /\ \E name \in Names, f \in {"insert", "readback"} : CreateReq(name, f)
    /\ UNCHANGED cvars
DeleteFault ==
    /\ \E id \in NumericIds, f \in {"select", "delete"} : DeleteReq(id, f)
    /\ UNCHANGED cvars

----------------------------------------------------------------------------
\* The client before it is mounted (lines 25-28): the initial values of the
\* state hooks, and no fetch call made

ClientInit ==
    /\ data = <<>>
    /\ loading = TRUE
    /\ error = JsNull
    /\ newItem = <<>>
    /\ calls = <<>>
    /\ issued = 0

----------------------------------------------------------------------------
\* Start-up (lines 15-32): the table is created and three rows inserted

InitialNames ==
    <<<<"I", "t", "e", "m", " ", "1">>, <<"I", "t", "e", "m", " ", "2">>,
      <<"I", "t", "e", "m", " ", "3">>>>

RECURSIVE InsertAll(_, _, _)
InsertAll(rows, k, clock) ==
    IF k > Len(InitialNames) THEN rows
    ELSE InsertAll(InsertRow(rows, NextRowid(rows, k - 1), InitialNames[k], clock), k + 1, clock)

Init ==
    /\ now \in MsMarks
    /\ tz \in TzOffsets
    /\ items = InsertAll({}, 1, now)
    /\ seq = InitialCount
    /\ born = <<>>
    /\ resp = NoResponse
    /\ ClientInit

Next == Tick \/ List \/ Create \/ Delete \/ DeleteOdd

Spec == Init /\ [][Next]_vars

----------------------------------------------------------------------------
\* The table as the test suites set it up (__tests__/app.test.js): beforeEach
\* empties it and inserts rows with a created_at of its own, an ISO string
\* some days before the clock or text that is no date.

\* INSERT INTO items (name, created_at) VALUES (?, ?)
InsertWithDate(rows, id, name, created_at) == rows \cup {Row(id, name, created_at)}

\* new Date(now - age).toISOString()
Ago(clock, days, hours) == ToISOString(clock - days * MsPerDay - hours * MsPerHour)

\* describe('DELETE /api/items/:id')
DeleteFixture(clock) ==
    <<[name |-> <<"O", "l", "d", " ", "I", "t", "e", "m">>, created_at |-> Ago(clock, 6, 0)],
      [name |-> <<"R", "e", "c", "e", "n", "t", " ", "I", "t", "e", "m">>, created_at |-> Ago(clock, 3, 0)]>>

\* describe('GET /api/items')
GetFixture(clock) ==
    <<[name |-> <<"I", "t", "e", "m", " ", "1">>, created_at |-> Ago(clock, 7, 0)],
      [name |-> <<"I", "t", "e", "m", " ", "2">>, created_at |-> Ago(clock, 3, 0)]>>

\* describe('DELETE /api/items/:id - Extended Tests')
ExtendedFixture(clock) ==
    <<[name |-> <<"F", "i", "v", "e", " ", "D", "a", "y", "s", " ", "O", "l", "d", " ", "I", "t", "e", "m">>, created_at |-> Ago(clock, 5, 0)],
      [name |-> <<"A", "l", "m", "o", "s", "t", " ", "F", "i", "v", "e", " ", "D", "a", "y", "s", " ", "O", "l", "d", " ", "I", "t", "e", "m">>, created_at |-> Ago(clock, 4, 23)],
      [name |-> <<"I", "n", "v", "a", "l", "i", "d", " ", "D", "a", "t", "e", " ", "I", "t", "e", "m">>, created_at |-> BadStamp]>>

Fixtures(clock) == {DeleteFixture(clock), GetFixture(clock), ExtendedFixture(clock)}

RECURSIVE InsertFixture(_, _, _, _)
InsertFixture(rows, fixture, k, last) ==
    IF k > Len(fixture) THEN rows
    ELSE InsertFixture(
             InsertWithDate(rows, NextRowid(rows, last), fixture[k].name,
                            fixture[k].created_at),
             fixture, k + 1, NextRowid(rows, last))

InitFixture ==
    /\ now \in {t \in Instants : t < MsPerDay}
    /\ tz \in TzOffsets
    /\ \E fixture \in Fixtures(now) :
          /\ items = InsertFixture({}, fixture, 1, InitialCount)
          /\ seq = InitialCount + Len(fixture)
    /\ born = <<>>
    /\ resp = NoResponse
    /\ ClientInit

\* A test case runs within one reading of the clock.
NextFixture == List \/ Create \/ Delete \/ DeleteOdd

SpecFixture == InitFixture /\ [][NextFixture]_vars

\* The suites also make the storage layer throw (db.prepare and
\* insertStmt.run replaced by functions that throw).
NextFault == NextFixture \/ ListFault \/ CreateFault \/ DeleteFault

SpecFault == InitFixture /\ [][NextFault]_vars

----------------------------------------------------------------------------
\* The client (packages/frontend/src/App.js).  A handler runs to its first
\* await in one step; what follows the await runs in a later step, when the
\* fetch call settles.

\* The API's part of the state
svars == <<items, seq, now, tz, born, resp>>

MaxCalls == 3       \* fetch calls the client makes, the one on mount included

\* A fetch call in flight: the route, its argument (POST: the name in the
\* body; DELETE: the id in the URL), whether the server has answered
\* ("request": not yet; "response": it has) and the answer.
Call(kind, arg) ==
    [kind |-> kind, arg |-> arg, stage |-> "request", reply |-> NoResponse]

\* The client's state as one value
Client ==
    [data |-> data, loading |-> loading, error |-> error, newItem |-> newItem,
     calls |-> calls, issued |-> issued]

SetClient(c) ==
    /\ data' = c.data
    /\ loading' = c.loading
    /\ error' = c.error
    /\ newItem' = c.newItem
    /\ calls' = c.calls
    /\ issued' = c.issued

\* A sequence without its k-th entry
Without(s, k) == SubSeq(s, 1, k - 1) \o SubSeq(s, k + 1, Len(s))

\* response.ok
Ok(r) == r.status >= 200 /\ r.status <= 299

\* err.message of the TypeError a fetch rejects with
NetworkFailure == <<"Failed to fetch">>

\* err.message of the SyntaxError response.json() throws on a body that is
\* no JSON (Express's own 404 page)
NotJson == <<"Unexpected token < in JSON at position 0">>

\* prefix + err.message, text in pieces
Message(prefix, reason) == JsString(<<prefix>> \o reason)

\* fetchData up to its await (lines 34-38)
FetchData(c) ==
    [c EXCEPT !.error = JsNull,
              !.loading = TRUE,
              !.calls = Append(@, Call("list", JsUndefined)),
              !.issued = @ + 1]

\* setLoading(false) at the end of the try block, not in finally
FetchDataSettledNoFinally(c, k, rejected) ==
    LET r == c.calls[k].reply
        rest == [c EXCEPT !.calls = Without(@, k)]
    IN  IF rejected \/ ~Ok(r)
        THEN [rest EXCEPT !.error = Message("Failed to fetch data: ", NetworkFailure)]
        ELSE [rest EXCEPT !.data = r.body, !.loading = FALSE]

\* setData(result) left out
FetchDataSettledKeep(c, k, rejected) ==
    LET r == c.calls[k].reply
        rest == [c EXCEPT !.calls = Without(@, k), !.loading = FALSE]
    IN  IF rejected \/ ~Ok(r)
        THEN [rest EXCEPT !.error = Message("Failed to fetch data: ", NetworkFailure)]
        ELSE rest

\* fetchData from its await on (lines 38-49); rejected: the fetch threw
FetchDataSettled(c, k, rejected) ==
    LET r == c.calls[k].reply
        rest == [c EXCEPT !.calls = Without(@, k), !.loading = FALSE]
    IN  IF rejected
        THEN [rest EXCEPT !.error = Message("Failed to fetch data: ", NetworkFailure)]
        ELSE IF ~Ok(r)
        THEN [rest EXCEPT !.error =
                 Message("Failed to fetch data: ", <<"Network response was not ok">>)]
        ELSE [rest EXCEPT !.data = r.body]

\* newItem === '' in place of the trim
SubmitBlockedWhenEmpty(draft) == draft = <<>>

\* !newItem.trim() in handleSubmit (line 54)
SubmitBlocked(draft) == Falsy(JsString(Trim(draft)))

\* disabled={!newItem.trim()} of the Add Item button (line 136)
AddDisabled(draft) == Falsy(JsString(Trim(draft)))

\* setError(null) left out
HandleSubmitKeepsError(c) ==
    IF SubmitBlocked(c.newItem)
    THEN c
    ELSE [c EXCEPT !.calls = Append(@, Call("create", JsString(c.newItem))),
                   !.issued = @ + 1]

\* handleSubmit up to its await (lines 52-65)
HandleSubmit(c) ==
    IF SubmitBlocked(c.newItem)
    THEN c
    ELSE [c EXCEPT !.error = JsNull,
                   !.calls = Append(@, Call("create", JsString(c.newItem))),
                   !.issued = @ + 1]

\* the new entry put first: [result, ...prevData]
AppendResultFirst(list, result) == <<result>> \o list

\* setData(prevData => [...prevData, result])
AppendResult(list, result) == Append(list, result)

\* setData([...data, result]) with the list of the first render
HandleSubmitSettledStale(c, k, rejected) ==
    LET r == c.calls[k].reply
        rest == [c EXCEPT !.calls = Without(@, k)]
    IN  IF rejected
        THEN [rest EXCEPT !.error = Message("Error adding item: ", NetworkFailure)]
        ELSE IF ~Ok(r)
        THEN [rest EXCEPT !.error = Message("Error adding item: ", <<"Failed to add item">>)]
        ELSE [rest EXCEPT !.data = <<r.body[1]>>, !.newItem = <<>>]

\* handleSubmit from its await on (lines 65-76)
HandleSubmitSettled(c, k, rejected) ==
    LET r == c.calls[k].reply
        rest == [c EXCEPT !.calls = Without(@, k)]
    IN  IF rejected
        THEN [rest EXCEPT !.error = Message("Error adding item: ", NetworkFailure)]
        ELSE IF ~Ok(r)
        THEN [rest EXCEPT !.error = Message("Error adding item: ", <<"Failed to add item">>)]
        ELSE [rest EXCEPT !.data = AppendResult(@, r.body[1]), !.newItem = <<>>]

\* The decimals of num / den, to three places
RECURSIVE Decimals(_, _, _)
Decimals(num, den, places) ==
    IF places = 0 \/ num = 0 THEN <<>>
    ELSE <<Digits[((num * 10) \div den) + 1]>>
             \o Decimals((num * 10) % den, den, places - 1)

\* `${errorData.itemAge}`: the number diffTime / MsPerDay as text, a whole
\* number as its digits, any other with a decimal point (the decimals after
\* the third are left out)
ItemAgeText(diffTime) ==
    IF diffTime % MsPerDay = 0
    THEN NumberToString(diffTime \div MsPerDay)
    ELSE NumberToString(diffTime \div MsPerDay) \o <<".">>
             \o Decimals(diffTime % MsPerDay, MsPerDay, 3)

\* the Error thrown for a 403 with the age-restriction text (lines 89-91)
TooNewMessage(diffTime) ==
    <<"Cannot delete: item must be at least 5 days old (current age: ">>
        \o ItemAgeText(diffTime) \o <<" days)">>

\* the items kept when the filter tests item.id === id
RECURSIVE FilterOnly(_, _)
FilterOnly(list, id) ==
    IF list = <<>> THEN <<>>
    ELSE IF Head(list).id = id
         THEN <<Head(list)>> \o FilterOnly(Tail(list), id)
         ELSE FilterOnly(Tail(list), id)

\* prevData.filter(item => item.id !== id)
RECURSIVE FilterOut(_, _)
FilterOut(list, id) ==
    IF list = <<>> THEN <<>>
    ELSE IF Head(list).id # id
         THEN <<Head(list)>> \o FilterOut(Tail(list), id)
         ELSE FilterOut(Tail(list), id)

\* no DELETE sent while one of the same id is in flight
HandleDeleteOnce(c, id) ==
    IF \E k \in DOMAIN c.calls : c.calls[k].kind = "delete" /\ c.calls[k].arg.n = id
    THEN [c EXCEPT !.error = JsNull]
    ELSE [c EXCEPT !.error = JsNull,
                   !.calls = Append(@, Call("delete", JsNumber(id))),
                   !.issued = @ + 1]

\* handleDelete up to its await (lines 79-85)
HandleDelete(c, id) ==
    [c EXCEPT !.error = JsNull,
              !.calls = Append(@, Call("delete", JsNumber(id))),
              !.issued = @ + 1]

\* the DELETE sent again when it has failed
HandleDeleteSettledRetry(c, k, rejected) ==
    IF ~rejected /\ Ok(c.calls[k].reply)
    THEN [c EXCEPT !.calls = Without(@, k),
                   !.data = FilterOut(@, c.calls[k].arg.n)]
    ELSE [c EXCEPT !.calls = Append(Without(@, k), Call("delete", c.calls[k].arg)),
                   !.error = Message("Error deleting item: ", <<"Failed to delete item">>)]

\* handleDelete from its await on (lines 85-100)
HandleDeleteSettled(c, k, rejected) ==
    LET r == c.calls[k].reply
        rest == [c EXCEPT !.calls = Without(@, k)]
        reason ==
            IF rejected THEN NetworkFailure
            ELSE IF r.error = "" THEN NotJson
            ELSE IF r.status = 403 /\ r.error = "Cannot delete items newer than 5 days"
            THEN TooNewMessage(r.diffTime)
            ELSE <<"Failed to delete item">>
    IN  IF ~rejected /\ Ok(r)
        THEN [rest EXCEPT !.data = FilterOut(@, c.calls[k].arg.n)]
        ELSE [rest EXCEPT !.error = Message("Error deleting item: ", reason)]

\* What the user may type into the text field
Drafts == {<<>>, <<" ">>, <<" ", "X">>}

\* The alert with the error is rendered (line 152)
ErrorShown == ~Falsy(error)

\* The table of items, with its Delete buttons, is rendered (line 153)
TableShown == ~loading /\ Falsy(error)

\* The row of the item with this id is rendered (lines 167-188)
RowShown(id) == TableShown /\ \E i \in DOMAIN data : data[i].id = id

\* useEffect(() => { fetchData(); }, []) : once, after the first render
Mount ==
    /\ issued = 0
    /\ SetClient(FetchData(Client))
    /\ UNCHANGED svars

\* onChange of the text field
Type ==
    /\ issued > 0
    /\ \E text \in Drafts : newItem' = text
    /\ UNCHANGED <<data, loading, error, calls, issued>>
    /\ UNCHANGED svars

\* onSubmit of the form
Submit ==
    /\ issued > 0
    /\ SubmitBlocked(newItem) \/ issued < MaxCalls
    /\ SetClient(HandleSubmit(Client))
    /\ UNCHANGED svars

\* onClick of the Delete button of a row
ClickDelete ==
    /\ TableShown
    /\ issued < MaxCalls
    /\ \E i \in DOMAIN data : SetClient(HandleDelete(Client, data[i].id))
    /\ UNCHANGED svars

\* The server handles a request of the client and sends its response
Answer(k) ==
    /\ calls' = [calls EXCEPT ![k] = [@ EXCEPT !.stage = "response", !.reply = resp']]
    /\ UNCHANGED <<data, loading, error, newItem, issued>>

Waiting(k, kind) == calls[k].kind = kind /\ calls[k].stage = "request"

ServeList ==
    \E k \in DOMAIN calls, f \in {"none", "select"} :
        Waiting(k, "list") /\ ListReq(f) /\ Answer(k)

ServeCreate ==
    \E k \in DOMAIN calls, f \in {"none", "insert", "readback"} :
        Waiting(k, "create") /\ CreateReq(calls[k].arg, f) /\ Answer(k)

ServeDelete ==
    \E k \in DOMAIN calls, f \in {"none", "select", "delete"} :
        Waiting(k, "delete") /\ DeleteReq(NumberToString(calls[k].arg.n), f) /\ Answer(k)

\* A fetch call settles: its response arrives, or it rejects (the request
\* or the response is lost)
Arrived(k, kind) == calls[k].kind = kind /\ calls[k].stage = "response"

ListDone ==
    /\ \E k \in DOMAIN calls :
          Arrived(k, "list") /\ SetClient(FetchDataSettled(Client, k, FALSE))
    /\ UNCHANGED svars

ListRejected ==
    /\ \E k \in DOMAIN calls :
          calls[k].kind = "list" /\ SetClient(FetchDataSettled(Client, k, TRUE))
    /\ UNCHANGED svars

CreateDone ==
    /\ \E k \in DOMAIN calls :
          Arrived(k, "create") /\ SetClient(HandleSubmitSettled(Client, k, FALSE))
    /\ UNCHANGED svars

CreateRejected ==
    /\ \E k \in DOMAIN calls :
          calls[k].kind = "create" /\ SetClient(HandleSubmitSettled(Client, k, TRUE))
    /\ UNCHANGED svars

DeleteDone ==
    /\ \E k \in DOMAIN calls :
          Arrived(k, "delete") /\ SetClient(HandleDeleteSettled(Client, k, FALSE))
    /\ UNCHANGED svars

DeleteRejected ==
    /\ \E k \in DOMAIN calls :
          calls[k].kind = "delete" /\ SetClient(HandleDeleteSettled(Client, k, TRUE))
    /\ UNCHANGED svars

\* The client in front of the API, the table as a suite set it up
NextClient ==
    \/ Mount \/ Type \/ Submit \/ ClickDelete
    \/ ServeList \/ ServeCreate \/ ServeDelete
    \/ ListDone \/ ListRejected
    \/ CreateDone \/ CreateRejected
    \/ DeleteDone \/ DeleteRejected

\* The page is opened at the first instant of the clock, the server in UTC.
InitClient == InitFixture /\ now = 0 /\ tz = 0

SpecClient == InitClient /\ [][NextClient]_vars

----------------------------------------------------------------------------
\* Properties

\* params.id as a client formats a rowid
IdText(n) == JsString(NumberToString(n))

\* The step handles a DELETE /api/items/<n>
DeleteStep(n) ==
    /\ now' = now
    /\ resp'.op = "delete"
    /\ resp'.req = IdText(n)
    /\ resp' # resp \/ items' # items

\* The step handles some DELETE
AnyDeleteStep == resp'.op = "delete" /\ (resp' # resp \/ items' # items)

\* The instant a row's created_at reads as, and whether it reads as one
Instant(r) == DateParse(r.created_at, tz).ms
Parseable(r) == r.created_at.fmt \in {"sql", "iso"}

\* floor((now - created_at) / 1 day)
AgeDays(r) == (now - Instant(r)) \div MsPerDay

TooNewError == "Cannot delete items newer than 5 days"

\* C1: a DELETE of a stored item whose created_at parses responds 200 and
\* removes the item when the item's whole days of age are at least 5, and
\* responds 403 (age restriction) and keeps it otherwise.
C1_AgeGate ==
    [][\A r \in items :
          (DeleteStep(r.id) /\ Parseable(r)) =>
              IF AgeDays(r) >= MinAgeDays
              THEN resp'.status = 200 /\ r.id \notin Ids(items')
              ELSE resp'.status = 403 /\ resp'.error = TooNewError /\ r \in items'
      ]_vars

\* An item exactly 5 days old has been deleted.
C1_ExactlyFiveDays ==
    /\ resp.op = "delete"
    /\ resp.status = 200
    /\ resp.diffTime = MinAgeDays * MsPerDay
    /\ resp.item # <<>>
    /\ resp.item[1].id \notin Ids(items)

\* C2: a DELETE that does not respond 200 (it responds 400, 403, 404 or 500,
\* a storage fault included) leaves the table as it was; one that responds
\* 200 removes the row with the requested id and no other.
C2_DeleteFrame ==
    [][AnyDeleteStep =>
          IF resp'.status = 200
          THEN \E r \in items :
                  /\ r.id = ParseInt(resp'.req.s).v
                  /\ items' = items \ {r}
          ELSE resp'.status \in {400, 403, 404, 500} /\ items' = items
      ]_vars

\* The DELETE statement faulted for an item old enough to delete: 500, and
\* the item is still stored.
C2_FaultKeepsItem ==
    /\ resp.op = "delete"
    /\ resp.status = 500
    /\ resp.fault = "delete"
    /\ resp.item # <<>>
    /\ resp.item[1] \in items

\* C3: every DELETE of an item made by POST, issued less than 5 full days
\* after the POST, responds 403.
C3_NoEarlyDelete ==
    [][\A id \in DOMAIN born :
          (DeleteStep(id) /\ id \in Ids(items) /\ now - born[id] < MinAgeDays * MsPerDay)
              => resp'.status = 403
      ]_vars

\* C4: a DELETE of an id that is not in the table responds 404 'Item not
\* found' (so never 403), whatever the table holds and whatever the time.
C4_NotFound ==
    [][\A n \in 1..(seq + 1) :
          (n \notin Ids(items) /\ DeleteStep(n)) =>
              resp'.status = 404 /\ resp'.error = "Item not found"
      ]_vars

\* A DELETE of the rowid not yet assigned was answered 404 while the table
\* held rows.
C4_UnassignedIdNotFound ==
    /\ resp.op = "delete"
    /\ resp.status = 404
    /\ resp.req = IdText(seq + 1)
    /\ items # {}

\* C5: a DELETE of an item old enough responds 200, and the same DELETE sent
\* again next responds 404 and leaves the table as it was.
C5_DeleteTwice ==
    [][/\ \A r \in items :
             (DeleteStep(r.id) /\ Parseable(r) /\ AgeDays(r) >= MinAgeDays)
                 => resp'.status = 200
       /\ (/\ resp.op = "delete"
           /\ resp.status = 200
           /\ resp'.op = "delete"
           /\ resp'.req = resp.req
           /\ resp' # resp)
              => (resp'.status = 404 /\ items' = items)
      ]_vars

\* A DELETE of a rowid that had been assigned and deleted was answered 404.
C5_SecondDelete ==
    /\ resp.op = "delete"
    /\ resp.status = 404
    /\ \E n \in 1..seq : resp.req = IdText(n) /\ n \notin Ids(items)

\* C6: after a POST answered 201, the GET that follows lists a row with the
\* id and created_at the POST returned and with the name as submitted.
C6_CreateThenList ==
    [][(resp.op = "create" /\ resp.status = 201 /\ resp'.op = "list") =>
          /\ resp'.status = 200
          /\ \E i \in DOMAIN resp'.body :
                /\ resp'.body[i].id = resp.body[1].id
                /\ resp'.body[i].created_at = resp.body[1].created_at
                /\ resp'.body[i].name = resp.req.s
      ]_vars

\* A GET listed a row that a POST made, under the name submitted.
C6_CreatedListed ==
    /\ resp.op = "list"
    /\ \E i \in DOMAIN resp.body :
          /\ resp.body[i].id \in DOMAIN born
          /\ JsString(resp.body[i].name) \in GoodNames

\* A name that is no string, or a string of nothing but white space
NameUnusable(v) == v.t # "string" \/ \A i \in DOMAIN v.s : v.s[i] \in WhiteSpace

\* C7: a POST whose name is missing, empty, white space only or not a string
\* responds 400 'Item name is required' and stores nothing.
C7_BadNameRejected ==
    [][(resp'.op = "create" /\ resp' # resp /\ NameUnusable(resp'.req)) =>
          /\ resp'.status = 400
          /\ resp'.error = "Item name is required"
          /\ items' = items
          /\ seq' = seq
      ]_vars

\* A POST of a name of three spaces was answered 400.
C7_WhitespaceRejected ==
    /\ resp.op = "create"
    /\ resp.status = 400
    /\ resp.req = JsString(<<" ", " ", " ">>)

\* C8: GET returns the rows of the table, each once and no other, newest
\* created_at first, and leaves the table as it was.
C8_ListAllDescending ==
    [][(resp'.op = "list" /\ resp' # resp) =>
          /\ resp'.status = 200
          /\ Len(resp'.body) = Cardinality(items)
          /\ {resp'.body[i] : i \in DOMAIN resp'.body} = items
          /\ \A i \in 1..(Len(resp'.body) - 1) :
                Instant(resp'.body[i]) >= Instant(resp'.body[i + 1])
          /\ items' = items
      ]_vars

\* A GET listed a newer row ahead of an older one.
C8_NewestFirst ==
    /\ resp.op = "list"
    /\ Len(resp.body) >= 2
    /\ Instant(resp.body[1]) > Instant(resp.body[2])

C10_Lifecycle ==
    [][/\ \A r \in items :
             \/ r \in items'
             \/ /\ r.id \notin Ids(items')
                /\ now' = now
                /\ resp'.op = "delete"
                /\ resp'.status = 200
                /\ ParseInt(resp'.req.s).v = r.id
                /\ AgeDays(r) >= MinAgeDays
       /\ \A n \in 1..seq : n \notin Ids(items) => n \notin Ids(items')
      ]_vars

\* An initial row is gone while a row made by POST is stored.
C10_DeletedAndActive ==
    /\ \E n \in 1..InitialCount : n \notin Ids(items)
    /\ \E r \in items : r.id \in DOMAIN born

\* An id that is an optional minus sign and decimal digits, and nothing else
IsDecimalInteger(s) ==
    LET digits == IF s # <<>> /\ s[1] = "-" THEN Tail(s) ELSE s
    IN  digits # <<>> /\ \A i \in DOMAIN digits : IsDigit(digits[i])

\* An id that is not blank and is no decimal integer
MalformedId(v) == Trim(v.s) # <<>> /\ ~IsDecimalInteger(v.s)

\* An id that is empty or white space only
BlankId(v) == \A i \in DOMAIN v.s : v.s[i] \in WhiteSpace

\* C11: a DELETE whose id is not blank and is no decimal integer responds 500
\* 'Failed to delete item' and leaves the table as it was.
C11_MalformedIdRejected ==
    [][(AnyDeleteStep /\ MalformedId(resp'.req)) =>
          /\ resp'.status = 500
          /\ resp'.error = "Failed to delete item"
          /\ items' = items
      ]_vars

\* C12: a DELETE whose id is absent, empty or white space only responds 400
\* 'Item id is required' (never 404) and leaves the table as it was.
C12_BlankIdRejected ==
    [][(AnyDeleteStep /\ BlankId(resp'.req)) =>
          /\ resp'.status = 400
          /\ resp'.error = "Item id is required"
          /\ items' = items
      ]_vars

\* The fixture tables with the clock running on: rows are looked up and
\* deleted at every later instant.
NextAging == Tick \/ List \/ Delete \/ DeleteOdd

SpecAging == InitFixture /\ [][NextAging]_vars

\* C13: a DELETE of a stored item whose created_at is NULL or is text that is
\* no date responds 500 'Failed to delete item' at every instant of the clock,
\* and the item stays in the table.
C13_CorruptStamp ==
    [][\A r \in items :
          (DeleteStep(r.id) /\ ~Parseable(r)) =>
              /\ resp'.status = 500
              /\ resp'.error = "Failed to delete item"
              /\ items' = items
      ]_vars

\* The item dated 'not-a-valid-date' was refused with 500 more than 5 days
\* after the table was set up, and is still stored.
C13_CorruptKeptWhenOld ==
    /\ resp.op = "delete"
    /\ resp.status = 500
    /\ resp.item # <<>>
    /\ resp.item[1].created_at = BadStamp
    /\ resp.item[1] \in items
    /\ now >= MinAgeDays * MsPerDay

\* C14: every 403 of a DELETE carries the age-restriction error and, as
\* itemAge, the time from the item's created_at to the clock in days, not
\* rounded (diffTime / MsPerDay), and that age is less than 5 days.
C14_ItemAgeExact ==
    [][(AnyDeleteStep /\ resp'.status = 403) =>
          /\ resp'.error = TooNewError
          /\ \E r \in items :
                /\ r.id = ParseInt(resp'.req.s).v
                /\ resp'.item = <<r>>
                /\ resp'.diffTime = now - Instant(r)
          /\ resp'.diffTime < MinAgeDays * MsPerDay
      ]_vars

\* A 403 reported an age between 4 and 5 days that is no whole number of days.
C14_FractionalAge ==
    /\ resp.op = "delete"
    /\ resp.status = 403
    /\ resp.diffTime > (MinAgeDays - 1) * MsPerDay
    /\ resp.diffTime % MsPerDay # 0

\* The step settles the k-th fetch call in flight: what follows its await runs
Settles(k) == calls' = Without(calls, k) /\ issued' = issued

\* The step makes a fetch call
Issues == issued' = issued + 1 /\ Len(calls') = Len(calls) + 1

\* The messages a failed GET may leave
FetchFailures ==
    {JsString(<<"Failed to fetch data: ", "Failed to fetch">>),
     JsString(<<"Failed to fetch data: ", "Network response was not ok">>)}

\* C15: the mount, and nothing else, issues a GET, once; when its response is
\* OK the list becomes the rows of the response and the error is null; when
\* it fails (the fetch rejects or the response is not OK) the error becomes
\* 'Failed to fetch data: ' and the reason, and the list stays as it was.
C15_MountFetch ==
    [][/\ Issues => (calls'[Len(calls')].kind = "list" <=> issued = 0)
       /\ \A k \in DOMAIN calls :
             (calls[k].kind = "list" /\ Settles(k)) =>
                 \/ /\ calls[k].stage = "response"
                    /\ Ok(calls[k].reply)
                    /\ data' = calls[k].reply.body
                    /\ error' = JsNull
                 \/ /\ data' = data
                    /\ error' \in FetchFailures
      ]_vars

\* C15 amended: as C15, but an OK response leaves the error as it is: null,
\* or the message of a Submit that failed while the GET was in flight.
C15_MountFetchKeepsError ==
    [][/\ Issues => (calls'[Len(calls')].kind = "list" <=> issued = 0)
       /\ \A k \in DOMAIN calls :
             (calls[k].kind = "list" /\ Settles(k)) =>
                 \/ /\ calls[k].stage = "response"
                    /\ Ok(calls[k].reply)
                    /\ data' = calls[k].reply.body
                    /\ error' = error
                    /\ error = JsNull \/ error.s[1] = "Error adding item: "
                 \/ /\ data' = data
                    /\ error' \in FetchFailures
      ]_vars

\* The GET of the mount has succeeded: the list holds the rows of the table,
\* no error is set and nothing else was requested.
C15_Loaded ==
    /\ issued = 1
    /\ calls = <<>>
    /\ ~loading
    /\ error = JsNull
    /\ Len(data) = Cardinality(items)
    /\ data # <<>>

\* Text that is empty or white space only
BlankText(s) == \A i \in DOMAIN s : s[i] \in WhiteSpace

\* C16: while the draft is empty or white space only a submit sends nothing
\* and leaves the list, the error, the loading flag and the draft as they
\* are; the Add Item button is disabled exactly for such drafts.
C16_BlankSubmit ==
    /\ BlankText(newItem) => HandleSubmit(Client) = Client
    /\ AddDisabled(newItem) <=> BlankText(newItem)

\* The draft is a single space: the button is disabled and a submit does
\* nothing.
C16_SpaceDraft ==
    /\ issued > 0
    /\ newItem = <<" ">>
    /\ AddDisabled(newItem)
    /\ HandleSubmit(Client) = Client

\* The messages a failed POST may leave
AddFailures ==
    {JsString(<<"Error adding item: ", "Failed to fetch">>),
     JsString(<<"Error adding item: ", "Failed to add item">>)}

\* C17: a submit of a draft that is not blank sends a POST with the draft as
\* the name; when its response is OK the item of the response is put at the
\* end of the list and the draft is emptied; when it fails the error becomes
\* 'Error adding item: ' and the reason, and the list stays as it was.
C17_Submit ==
    [][/\ ~BlankText(newItem) =>
             /\ HandleSubmit(Client).issued = issued + 1
             /\ HandleSubmit(Client).calls =
                    calls \o <<[kind |-> "create", arg |-> JsString(newItem),
                                stage |-> "request", reply |-> NoResponse]>>
       /\ (Issues /\ calls'[Len(calls')].kind = "create") =>
             /\ ~BlankText(newItem)
             /\ SetClient(HandleSubmit(Client))
       /\ \A k \in DOMAIN calls :
             (calls[k].kind = "create" /\ Settles(k)) =>
                 \/ /\ calls[k].stage = "response"
                    /\ Ok(calls[k].reply)
                    /\ data' = data \o <<calls[k].reply.body[1]>>
                    /\ newItem' = <<>>
                 \/ /\ data' = data
                    /\ error' \in AddFailures
      ]_vars

\* The item a POST made stands last in a list of several, and the draft is
\* empty.
C17_AddedLast ==
    /\ Len(data) >= 2
    /\ data[Len(data)].id \in DOMAIN born
    /\ \A i \in 1..(Len(data) - 1) : data[i].id \notin DOMAIN born
    /\ newItem = <<>>
    /\ calls = <<>>

\* C18: when the response of a DELETE is OK the entries with the id of the
\* request leave the list and the others stay in their order; when the DELETE
\* fails the list stays as it was and the error begins 'Error deleting item'.
C18_RequestDelete ==
    [][\A k \in DOMAIN calls :
          (calls[k].kind = "delete" /\ Settles(k)) =>
              \/ /\ calls[k].stage = "response"
                 /\ Ok(calls[k].reply)
                 /\ data' = SelectSeq(data, LAMBDA x : x.id # calls[k].arg.n)
              \/ /\ data' = data
                 /\ error'.t = "string"
                 /\ error'.s[1] = "Error deleting item: "
      ]_vars

\* An item of the table was deleted through the client: it is gone from the
\* table and from the list, and the list still holds the others.
C18_Removed ==
    /\ calls = <<>>
    /\ error = JsNull
    /\ data # <<>>
    /\ \E n \in (InitialCount + 1)..seq :
          /\ n \notin Ids(items)
          /\ \A i \in DOMAIN data : data[i].id # n
    /\ \A r \in items : \E i \in DOMAIN data : data[i] = r

\* The step settles the k-th call, a DELETE, with an OK response
DeleteSucceeds(k) ==
    /\ calls[k].stage = "response"
    /\ Ok(calls[k].reply)
    /\ data' = SelectSeq(data, LAMBDA x : x.id # calls[k].arg.n)

\* The age-restriction message with the age as n whole days
WholeDaysMessage(n) ==
    JsString(<<"Error deleting item: ",
               "Cannot delete: item must be at least 5 days old (current age: ">>
                 \o NumberToString(n) \o <<" days)">>)

\* The messages any other failed DELETE may leave
OtherDeleteFailures ==
    {JsString(<<"Error deleting item: ", "Failed to delete item">>),
     JsString(<<"Error deleting item: ", "Failed to fetch">>)}

\* C19: when the response of a DELETE is the 403 of the age restriction the
\* error names the 5 days and the item's age as a whole number of days
\* (itemAge rounded down, up or to the nearest day); every other failed
\* DELETE leaves the general message.
C19_WholeDaysShown ==
    [][\A k \in DOMAIN calls :
          (calls[k].kind = "delete" /\ Settles(k)) =>
              LET r == calls[k].reply
                  floor == r.diffTime \div MsPerDay
              IN  \/ DeleteSucceeds(k)
                  \/ error' \in OtherDeleteFailures
                  \/ /\ calls[k].stage = "response"
                     /\ r.status = 403
                     /\ r.error = TooNewError
                     /\ error' \in {WholeDaysMessage(floor), WholeDaysMessage(floor + 1)}
      ]_vars

\* C20: after a DELETE of the client has failed the error is on the page, and
\* so is the row of the item, in the table of items.
C20_FailedItemShown ==
    [][\A k \in DOMAIN calls :
          (calls[k].kind = "delete" /\ Settles(k)) =>
              \/ DeleteSucceeds(k)
              \/ ErrorShown' /\ RowShown(calls[k].arg.n)'
      ]_vars

\* C29: a POST answered 500 'Failed to create item' has stored nothing,
\* whether the INSERT faulted or the SELECT that reads the new row back.
C29_FailedCreateStoresNothing ==
    [][(resp'.op = "create" /\ resp'.status = 500 /\ (resp' # resp \/ items' # items)) =>
          /\ resp'.error = "Failed to create item"
          /\ items' = items
          /\ seq' = seq
      ]_vars

\* The k-th call is a DELETE of item n that the server has answered, no
\* storage fault injected
DeleteAnswered(k, n) ==
    /\ calls[k].kind = "delete"
    /\ calls[k].arg.n = n
    /\ calls[k].stage = "response"
    /\ calls[k].reply.fault = "none"

\* The answer shows the handler found the row, old enough to delete
FoundQualified(r) ==
    /\ r.item # <<>>
    /\ Parseable(r.item[1])
    /\ r.diffTime >= MinAgeDays * MsPerDay

\* C25: of two DELETEs of the same item, old enough to delete, that the
\* server has handled in either order, one is answered 200 and the other 404
\* 'Item not found', and the item is gone from the table.
C25_TwoDeletes ==
    \A j, k \in DOMAIN calls : \A n \in 1..seq :
        (/\ j # k
         /\ DeleteAnswered(j, n)
         /\ DeleteAnswered(k, n)
         /\ FoundQualified(calls[j].reply)) =>
            /\ calls[j].reply.status = 200
            /\ calls[k].reply.status = 404
            /\ calls[k].reply.error = "Item not found"
            /\ n \notin Ids(items)

\* Two DELETEs of one item are answered, the one sent second with 200 and
\* the one sent first with 404.
C25_SecondSentWins ==
    \E j, k \in DOMAIN calls :
        /\ j < k
        /\ calls[j].kind = "delete" /\ calls[k].kind = "delete"
        /\ calls[j].arg = calls[k].arg
        /\ calls[j].stage = "response" /\ calls[k].stage = "response"
        /\ calls[j].reply.status = 404
        /\ calls[k].reply.status = 200

\* An error of this kind is set
ErrorBegins(prefix) == error.t = "string" /\ error.s[1] = prefix

\* The step settles the k-th call, a POST, with an OK response
CreateSucceeds(k) ==
    /\ calls[k].kind = "create"
    /\ calls[k].stage = "response"
    /\ Ok(calls[k].reply)
    /\ data' = data \o <<calls[k].reply.body[1]>>

\* C21: no failure disables the page.  Whatever error is set, once mounted
\* the text field takes input and a submit of a draft that is not blank sends
\* its POST and clears the error; and a POST or DELETE that then succeeds
\* leaves the error and the loading flag as they are, so the error stays
\* cleared and the list is shown (a failure only sets the error).
C21_FailureNotFatal ==
    [][/\ issued > 0 => ENABLED Type
       /\ (issued > 0 /\ ~BlankText(newItem)) =>
             /\ ~AddDisabled(newItem)
             /\ HandleSubmit(Client).issued = issued + 1
             /\ HandleSubmit(Client).error = JsNull
             /\ HandleSubmit(Client).loading = loading
       /\ \A k \in DOMAIN calls :
             (calls[k].kind \in {"create", "delete"} /\ Settles(k)) =>
                 /\ loading' = loading
                 /\ \/ /\ error' = error
                       /\ \/ CreateSucceeds(k)
                          \/ calls[k].kind = "delete" /\ DeleteSucceeds(k)
                    \/ /\ data' = data
                       /\ error'.t = "string"
                       /\ error'.s[1] \in {"Error adding item: ", "Error deleting item: "}
      ]_vars

\* The GET of the mount failed and a later submit succeeded: no error is set
\* and the list is shown with the new item alone, the table holding more.
C21_RecoveredBySubmit ==
    /\ calls = <<>>
    /\ TableShown
    /\ Len(data) = 1
    /\ data[1].id \in DOMAIN born
    /\ Cardinality(items) > 1

\* C22: while 'Failed to fetch data' is shown the client can fetch again: some
\* step of the client sends another GET (whose OK response would clear the
\* error and show the fetched items).
C22_RefetchAvailable ==
    ErrorBegins("Failed to fetch data: ") =>
        ENABLED (NextClient /\ Issues /\ calls'[Len(calls')].kind = "list")

\* The step is one event of the page sending one request: the mount, a
\* submit of a draft that is not blank, or a click on Delete
Triggered ==
    /\ Issues
    /\ calls' = Append(calls, calls'[Len(calls')])
    /\ calls'[Len(calls')].stage = "request"
    /\ \/ issued = 0 /\ calls'[Len(calls')].kind = "list"
       \/ ~BlankText(newItem) /\ calls'[Len(calls')] = Call("create", JsString(newItem))
       \/ \E i \in DOMAIN data : calls'[Len(calls')] = Call("delete", JsNumber(data[i].id))

\* The step is the server handling the k-th call, once: at most one row
\* enters or leaves the table
Served(k) ==
    /\ calls[k].stage = "request"
    /\ calls' = [calls EXCEPT ![k] = [@ EXCEPT !.stage = "response", !.reply = resp']]
    /\ issued' = issued
    /\ Cardinality((items' \ items) \cup (items \ items')) <= 1
    /\ seq' - seq \in {0, 1}

\* C23: nothing is retried.  Every request is sent by one event of the page
\* (the mount, a submit of a draft that is not blank, a click on Delete); a
\* call that settles, failed or not, sends nothing; the server handles a
\* request once, while it waits, and changes at most one row for it.
C23_NoRetry ==
    [][/\ \/ calls' = calls /\ issued' = issued
          \/ Triggered
          \/ \E k \in DOMAIN calls : Served(k)
          \/ \E k \in DOMAIN calls : Settles(k)
       /\ svars' # svars => \E k \in DOMAIN calls : Served(k)
      ]_vars

\* A DELETE has failed and nothing is in flight: the mount and the click
\* were the only requests.
C23_FailedAndQuiet ==
    /\ ErrorBegins("Error deleting item: ")
    /\ calls = <<>>
    /\ issued = 2

\* The server can handle the k-th call as it waits, apart from the others
Servable(k) ==
    ENABLED (/\ \/ Waiting(k, "list") /\ ListReq("none")
                \/ Waiting(k, "create") /\ CreateReq(calls[k].arg, "none")
                \/ Waiting(k, "delete")
                      /\ DeleteReq(NumberToString(calls[k].arg.n), "none")
             /\ Answer(k)
             /\ Served(k))

SpecClientFair == SpecClient /\ WF_vars(ListDone)

\* The GET of the mount is in flight
ListInFlight == \E k \in DOMAIN calls : calls[k].kind = "list"

\* C26: the loading flag is true from the start until the GET of the mount
\* settles, OK or not, and false from then on; once the response of that GET
\* is back the flag becomes false; and neither a submit nor a click on
\* Delete, nor the settling of their calls, changes the flag.
C26_Loading ==
    /\ [](loading <=> (issued = 0 \/ ListInFlight))
    /\ [](/\ HandleSubmit(Client).loading = loading
          /\ \A i \in DOMAIN data : HandleDelete(Client, data[i].id).loading = loading)
    /\ [][\A k \in DOMAIN calls :
             (calls[k].kind \in {"create", "delete"} /\ Settles(k)) => loading' = loading
         ]_vars
    /\ (\E k \in DOMAIN calls : Arrived(k, "list")) ~> ~loading

\* The GET of the mount has failed: the flag is false and the fetch error is
\* set.
C26_LoadedWithError ==
    /\ ~loading
    /\ ErrorBegins("Failed to fetch data: ")
    /\ calls = <<>>

\* The ids of the rows the component holds
LocalIds == {data[i].id : i \in DOMAIN data}

\* Two calls were issued, the GET of the mount and one POST, both have settled
\* and both succeeded: the store holds the row the POST inserted; no error is
\* set, and a failed POST would have set one that nothing issued later could
\* clear; the list holds a seeded row, which only the response of the GET
\* brings.
MountAndSubmitSucceeded ==
    /\ issued = 2
    /\ calls = <<>>
    /\ ~loading
    /\ error = JsNull
    /\ DOMAIN born # {}
    /\ \E i \in DOMAIN data : data[i].id \notin DOMAIN born

\* C27: when no call is in flight and the GET of the mount and a POST
\* issued while it was in flight have both succeeded, the ids of the rows the
\* component holds are the ids of the rows of the store.
C27_LocalListIsStore == MountAndSubmitSucceeded => LocalIds = Ids(items)

\* C28: in every state of the page, whatever the order in which the server
\* takes the requests and the order in which their responses arrive, no two
\* rows of the list the component holds have the same id.
C28_NoTwoRowsOfOneId ==
    \A i, j \in DOMAIN data : i # j => data[i].id # data[j].id

\* The j-th call is a POST and the k-th a DELETE of a listed row, the
\* responses of both are back and OK, and the GET of the mount has settled
BothOutstanding(j, k) ==
    /\ ~loading
    /\ ~ListInFlight
    /\ Arrived(j, "create")
    /\ Ok(calls[j].reply)
    /\ Arrived(k, "delete")
    /\ Ok(calls[k].reply)
    /\ calls[k].arg.n \in LocalIds
    /\ calls[k].arg.n # calls[j].reply.body[1].id

\* The place of the k-th call once the j-th has settled
After(k, j) == IF k > j THEN k - 1 ELSE k

\* C30: once the GET of the mount has settled, when the OK responses of a
\* POST and of a DELETE of another, listed row are both back, the component
\* ends with the same list whichever is handled first: the list as it was
\* without the deleted row, and the added row at its end.
C30_EitherOrder ==
    \A j, k \in DOMAIN calls :
        BothOutstanding(j, k) =>
            LET added == calls[j].reply.body[1]
                gone == calls[k].arg.n
                addFirst == HandleDeleteSettled(HandleSubmitSettled(Client, j, FALSE),
                                                After(k, j), FALSE)
                deleteFirst == HandleSubmitSettled(HandleDeleteSettled(Client, k, FALSE),
                                                   After(j, k), FALSE)
            IN  /\ addFirst.data = deleteFirst.data
                /\ addFirst.data = Append(SelectSeq(data, LAMBDA x : x.id # gone), added)
                /\ \E i \in DOMAIN addFirst.data : addFirst.data[i] = added
                /\ \A i \in DOMAIN addFirst.data : addFirst.data[i].id # gone
                /\ addFirst.calls = deleteFirst.calls

\* The responses of a POST and of a DELETE of a listed row are both back, OK,
\* with more rows listed than the one to go.
C30_BothBack ==
    \E j, k \in DOMAIN calls : BothOutstanding(j, k) /\ Len(data) > 1

====
